---- MODULE Spec2Model ----
(***************************************************************************)
(* State-machine model of src/utils/model.py (Sakura-13B-Galgame):         *)
(* load_model, SakuraModel.__init__ (version guard), completion /          *)
(* get_model_response (lock-serialised generation), check_model_by_magic   *)
(* (self-test) and get_model_response_anti_degen (fallback regeneration).  *)
(*                                                                         *)
(* Strings that the code inspects character by character (the model        *)
(* version) are sequences of one-character strings; opaque strings (names, *)
(* texts) are TLA+ strings.  Floating point sampling parameters are kept   *)
(* in hundredths (0.05 -> 5).                                              *)
(***************************************************************************)
EXTENDS Integers, Sequences, FiniteSets, TLC

VARIABLES
    cfg,          \* self.cfg : SakuraModelConfig
    declared,     \* history: the cfg record as passed to the constructor
    modelConfig,  \* config.json of the checkpoint at model_name_or_path
    obj,          \* "new" | "raised" | "exited" | "constructed"
    proc,         \* [status, code] of the hosting process
    ctorCalls,    \* library constructors called by load_model, in order
    callers,      \* identities of the threads that use the instance
    world,        \* what callers pass in and what the library may return
    lock,         \* self.lock : TRUE when held
    pc,           \* per thread: the step it is about to run / is running
    call,         \* per thread: arguments of the call in progress
    input_token_len,  \* per thread: local of get_model_response
    generation,   \* per thread: local `generation`
    stage,        \* per thread: local `stage` of the anti-degeneration loop
    response,     \* per thread: value returned to the caller
    genLog,       \* history, per thread: generation_config of each generate
    detLog,       \* history, per thread: results of detect_degeneration
    firstGen,     \* history, per thread: the first generation of the call
    lastGen,      \* history, per thread: the latest generation of the call
    completions   \* history, per thread: number of completion() calls made

vars == <<cfg, declared, modelConfig, obj, proc, ctorCalls, callers, world,
          lock, pc, call, input_token_len, generation, stage, response,
          genLog, detLog, firstGen, lastGen, completions>>

ctorVars == <<cfg, obj, proc, ctorCalls>>
envVars == <<declared, modelConfig, callers, world>>
threadVars == <<lock, pc, call, input_token_len, generation, stage, response,
                genLog, detLog, firstGen, lastGen, completions>>

(***************************************************************************)
(* Bounds                                                                  *)
(***************************************************************************)
MaxVerLen == 3      \* longest declared version string
NumThreads == 2     \* threads in the concurrent specification
MaxPromptLen == 2   \* longest prompt
MaxTextLength == 2  \* largest text_length
MaxNewTokens == 3   \* most tokens one generate call adds

Max(a, b) == IF b > a THEN b ELSE a

RECURSIVE SeqsUpTo(_, _)
SeqsUpTo(S, n) ==
    IF n = 0 THEN {<<>>}
    ELSE LET shorter == SeqsUpTo(S, n - 1)
         IN  shorter \cup {Append(s, c) : s \in {x \in shorter : Len(x) = n - 1}, c \in S}

VersionChars == {"0", ".", "8", "9", " "}
V08 == <<"0", ".", "8">>
V09 == <<"0", ".", "9">>

None == "None"
NoGeneration == [len |-> 0, degen |-> FALSE, text |-> None]

(***************************************************************************)
(* load_model                                                              *)
(***************************************************************************)
\* Python's `a in b` for two str values: a occurs in b as a substring.
StrIn(a, b) ==
    \E i \in 0..(Len(b) - Len(a)) : SubSeq(b, i + 1, i + Len(a)) = a

\* the literal "0.5 0.7 0.8" of line 47
TrustVersions == <<"0", ".", "5", " ", "0", ".", "7", " ", "0", ".", "8">>

load_model_raises(args) ==
    /\ args.trust_remote_code = FALSE
    /\ StrIn(args.model_version, TrustVersions)

load_model_ctors(args) ==
    << IF args.llama THEN "LlamaTokenizer" ELSE "AutoTokenizer",
       IF args.use_gptq_model THEN "AutoGPTQForCausalLM"
       ELSE IF args.llama THEN "LlamaForCausalLM"
       ELSE "AutoModelForCausalLM" >>

(***************************************************************************)
(* SakuraModel.__init__                                                    *)
(***************************************************************************)
MetaAttrs == {"sakura_name", "sakura_version", "sakura_quant"}

AttrsMissing_versionOnly(mc) == "sakura_version" \notin mc.has

\* the try/except of lines 92-98: any attribute access fails
AttrsMissing(mc) == \E a \in MetaAttrs : a \notin mc.has

VersionMismatch_off(c, mc) == FALSE

\* line 102
VersionMismatch(c, mc) == c.model_version /= mc.sakura_version

\* exit(-1): the status the parent process observes
ExitStatus == (0 - 1) % 256

Init_raise ==
    /\ load_model_raises(cfg)
    /\ obj' = "raised"
    /\ UNCHANGED <<cfg, proc, ctorCalls>>

Init_exit ==
    /\ ~load_model_raises(cfg)
    /\ AttrsMissing(modelConfig) \/ VersionMismatch(cfg, modelConfig)
    /\ ctorCalls' = load_model_ctors(cfg)
    /\ obj' = "exited"
    /\ proc' = [status |-> "exited", code |-> ExitStatus]
    /\ UNCHANGED cfg

Init_ok ==
    /\ ~load_model_raises(cfg)
    /\ ~(AttrsMissing(modelConfig) \/ VersionMismatch(cfg, modelConfig))
    /\ ctorCalls' = load_model_ctors(cfg)
    /\ cfg' = [cfg EXCEPT !.model_name = modelConfig.sakura_name,
                          !.model_version = modelConfig.sakura_version,
                          !.model_quant = modelConfig.sakura_quant]
    /\ obj' = "constructed"
    /\ UNCHANGED proc

SakuraModel_init ==
    /\ obj = "new"
    /\ proc.status = "running"
    /\ Init_raise \/ Init_exit \/ Init_ok
    /\ UNCHANGED envVars
    /\ UNCHANGED threadVars

(***************************************************************************)
(* External collaborators: GenerationConfig records, utils.consts          *)
(***************************************************************************)
GenerationConfig(temp, p, k, maxNew, minNew, sample, freq) ==
    [temperature |-> temp, top_p |-> p, top_k |-> k, num_beams |-> 1,
     bos_token_id |-> 1, eos_token_id |-> 2, pad_token_id |-> 0,
     max_new_tokens |-> maxNew, min_new_tokens |-> minNew,
     do_sample |-> sample, repetition_penalty |-> 100,
     frequency_penalty |-> freq]

\* a sampling configuration chosen by the caller of completion()
CallerConfig == GenerationConfig(100, 100, 50, MaxNewTokens, 1, TRUE, 0)

\* consts.get_test_case_by_model_version
get_test_case_by_model_version(v) ==
    [generation_config |-> GenerationConfig(10, 30, 40, MaxNewTokens, 1, FALSE, 0),
     test_input |-> <<"i">>,
     test_output |-> IF v = V08 THEN "T1" ELSE "T2"]

\* consts.get_prompt
get_prompt(input, v) == v \o input

\* tokenizer(prompt).input_ids.shape[-1]: BOS plus one token per character
Tokenizer(prompt) == Len(prompt) + 1

\* utils.split_response(tokenizer.decode(generation), model_version)
split_response_decode(g, v) == g.text

\* utils.detect_degeneration(list(generation), model_version)
detect_degeneration(g, v) == g.degen

\* what model.generate may return for `inLen` context tokens
Generations(inLen) ==
    {[len |-> inLen + n, degen |-> d, text |-> x] :
        n \in world.newTokens, d \in BOOLEAN, x \in world.texts}

(***************************************************************************)
(* SakuraModel.get_max_text_length / completion / test_loaded              *)
(***************************************************************************)
Usable(t) ==
    /\ obj = "constructed"
    /\ proc.status = "running"
    /\ t \in callers

get_max_text_length_default(c, length) == c.text_length

get_max_text_length(c, length) == Max(c.text_length, length)

\* the call of get_model_response made by completion(), lines 135-143
StartCompletion(t, op, prompt, gc, print, truth) ==
    /\ call' = [call EXCEPT ![t] =
                  [op |-> op, prompt |-> prompt, generation_config |-> gc,
                   model_version |-> cfg.model_version,
                   text_length |-> get_max_text_length(cfg, Len(prompt)),
                   is_print_speed |-> print, ground_truth |-> truth]]
    /\ completions' = [completions EXCEPT ![t] = @ + 1]
    /\ pc' = [pc EXCEPT ![t] = "c_lock"]
    /\ UNCHANGED <<lock, input_token_len, generation, stage, response,
                   genLog, detLog, firstGen, lastGen>>
    /\ UNCHANGED ctorVars
    /\ UNCHANGED envVars

Completion(t) ==
    /\ Usable(t)
    /\ pc[t] = "idle"
    /\ \E prompt \in world.prompts, print \in world.printFlags :
          StartCompletion(t, "completion", prompt, CallerConfig, print, None)

\* is_print_speed argument of line 155
test_loaded_print == FALSE

\* check_model_by_magic -> test_loaded -> completion, lines 117, 148-155
CheckModelByMagic(t) ==
    /\ Usable(t)
    /\ pc[t] = "idle"
    /\ "magic" \in world.ops
    /\ LET testcase == get_test_case_by_model_version(cfg.model_version)
           prompt == get_prompt(testcase.test_input, cfg.model_version)
       IN  StartCompletion(t, "magic", prompt, testcase.generation_config,
                           test_loaded_print, testcase.test_output)

(***************************************************************************)
(* SakuraModel.get_model_response                                          *)
(***************************************************************************)
Lock_acquire_nowait(t) ==
    /\ Usable(t)
    /\ pc[t] = "c_lock"
    /\ lock' = TRUE
    /\ pc' = [pc EXCEPT ![t] = "c_tokenize"]
    /\ UNCHANGED <<call, input_token_len, generation, stage, response,
                   genLog, detLog, firstGen, lastGen, completions>>
    /\ UNCHANGED ctorVars
    /\ UNCHANGED envVars

\* `with self.lock:` entry, line 161: blocks while the lock is held
Lock_acquire(t) ==
    /\ Usable(t)
    /\ pc[t] = "c_lock"
    /\ lock = FALSE
    /\ lock' = TRUE
    /\ pc' = [pc EXCEPT ![t] = "c_tokenize"]
    /\ UNCHANGED <<call, input_token_len, generation, stage, response,
                   genLog, detLog, firstGen, lastGen, completions>>
    /\ UNCHANGED ctorVars
    /\ UNCHANGED envVars

InCritical == {"c_tokenize", "c_generate", "c_decode"}

Raise_keepLock(t) ==
    /\ Usable(t)
    /\ pc[t] \in InCritical
    /\ pc' = [pc EXCEPT ![t] = "failed"]
    /\ UNCHANGED <<lock, call, input_token_len, generation, stage, response,
                   genLog, detLog, firstGen, lastGen, completions>>
    /\ UNCHANGED ctorVars
    /\ UNCHANGED envVars

\* an exception of tokenizer(), generate(), decode() or split_response()
\* leaves the `with` block (the lock is released) and reaches the caller
Raise(t) ==
    /\ Usable(t)
    /\ pc[t] \in InCritical
    /\ lock' = FALSE
    /\ pc' = [pc EXCEPT ![t] = "failed"]
    /\ UNCHANGED <<call, input_token_len, generation, stage, response,
                   genLog, detLog, firstGen, lastGen, completions>>
    /\ UNCHANGED ctorVars
    /\ UNCHANGED envVars

\* lines 163-164
Tokenize(t) ==
    /\ Usable(t)
    /\ pc[t] = "c_tokenize"
    /\ input_token_len' = [input_token_len EXCEPT ![t] = Tokenizer(call[t].prompt)]
    /\ pc' = [pc EXCEPT ![t] = "c_generate"]
    /\ UNCHANGED <<lock, call, generation, stage, response,
                   genLog, detLog, firstGen, lastGen, completions>>
    /\ UNCHANGED ctorVars
    /\ UNCHANGED envVars

\* lines 165-166
Generate(t) ==
    /\ Usable(t)
    /\ pc[t] = "c_generate"
    /\ \E g \in Generations(input_token_len[t]) :
          /\ generation' = [generation EXCEPT ![t] = g]
          /\ firstGen' = [firstGen EXCEPT ![t] = g]
          /\ lastGen' = [lastGen EXCEPT ![t] = g]
    /\ genLog' = [genLog EXCEPT ![t] = Append(@, call[t].generation_config)]
    /\ pc' = [pc EXCEPT ![t] = "c_decode"]
    /\ UNCHANGED <<lock, call, input_token_len, stage, response,
                   detLog, completions>>
    /\ UNCHANGED ctorVars
    /\ UNCHANGED envVars

NoResponse == [type |-> "none"]

ModelResponse(context, new, text) ==
    [type |-> "ModelResponse", context_token |-> context,
     new_token |-> new, text |-> text]

\* lines 167-169 and the end of the `with` block; the response record of
\* lines 174-178 is assembled from the locals but not yet returned
Decode(t) ==
    /\ Usable(t)
    /\ pc[t] = "c_decode"
    /\ response' = [response EXCEPT ![t] =
            [type |-> "pending",
             context_token |-> input_token_len[t],
             new_token |-> generation[t].len - input_token_len[t],
             text |-> split_response_decode(generation[t], call[t].model_version)]]
    /\ lock' = FALSE
    /\ pc' = [pc EXCEPT ![t] = "c_return"]
    /\ UNCHANGED <<call, input_token_len, generation, stage,
                   genLog, detLog, firstGen, lastGen, completions>>
    /\ UNCHANGED ctorVars
    /\ UNCHANGED envVars

\* lines 171-178: completion() returns the record to its caller
Return(t) ==
    /\ Usable(t)
    /\ pc[t] = "c_return"
    /\ response' = [response EXCEPT ![t] =
            ModelResponse(@.context_token, @.new_token, @.text)]
    /\ pc' = [pc EXCEPT ![t] = IF call[t].op = "magic" THEN "m_compare" ELSE "done"]
    /\ UNCHANGED <<lock, call, input_token_len, generation, stage,
                   genLog, detLog, firstGen, lastGen, completions>>
    /\ UNCHANGED ctorVars
    /\ UNCHANGED envVars

magic_ret_always(ground_truth, output) == TRUE

\* line 120
magic_ret(ground_truth, output) == ground_truth = output.text

\* check_model_by_magic, lines 118-126
CheckModelByMagicReturn(t) ==
    /\ Usable(t)
    /\ pc[t] = "m_compare"
    /\ response' = [response EXCEPT ![t] =
            [type |-> "bool",
             value |-> magic_ret(call[t].ground_truth, response[t]),
             output |-> response[t]]]
    /\ pc' = [pc EXCEPT ![t] = "done"]
    /\ UNCHANGED <<lock, call, input_token_len, generation, stage,
                   genLog, detLog, firstGen, lastGen, completions>>
    /\ UNCHANGED ctorVars
    /\ UNCHANGED envVars

(***************************************************************************)
(* SakuraModel.get_model_response_anti_degen                               *)
(***************************************************************************)
\* lines 181-194
backup_generation_config_stage2(text_length) ==
    GenerationConfig(10, 30, 40, 2 * text_length, 1, TRUE, 5)

\* lines 196-209
backup_generation_config_stage3(text_length) ==
    GenerationConfig(10, 30, 40, 2 * text_length, 1, TRUE, 20)

\* line 211
backup_generation_config(text_length) ==
    << backup_generation_config_stage2(text_length),
       backup_generation_config_stage3(text_length) >>

\* the call itself: arguments are bound, the two backup configurations built
AntiDegen(t) ==
    /\ Usable(t)
    /\ pc[t] = "idle"
    /\ "anti_degen" \in world.ops
    /\ \E prompt \in world.prompts, text_length \in world.textLengths :
          call' = [call EXCEPT ![t] =
                  [op |-> "anti_degen", prompt |-> prompt,
                   generation_config |-> CallerConfig,
                   model_version |-> cfg.model_version,
                   text_length |-> text_length,
                   is_print_speed |-> FALSE, ground_truth |-> None]]
    /\ pc' = [pc EXCEPT ![t] = "a_generate"]
    /\ UNCHANGED <<lock, input_token_len, generation, stage, response,
                   genLog, detLog, firstGen, lastGen, completions>>
    /\ UNCHANGED ctorVars
    /\ UNCHANGED envVars

NeedsDetection_loose(g, text_length) == g.len > 2 * text_length + 1

\* line 214
NeedsDetection(g, text_length) == g.len > 2 * text_length

A_Generate_locked(t) ==
    /\ Usable(t)
    /\ pc[t] = "a_generate"
    /\ lock = FALSE
    /\ lock' = TRUE
    /\ \E g \in Generations(Tokenizer(call[t].prompt)) :
          /\ generation' = [generation EXCEPT ![t] = g]
          /\ firstGen' = [firstGen EXCEPT ![t] = g]
          /\ lastGen' = [lastGen EXCEPT ![t] = g]
          /\ pc' = [pc EXCEPT ![t] =
                IF NeedsDetection(g, call[t].text_length)
                THEN "a_detect" ELSE "a_return"]
    /\ genLog' = [genLog EXCEPT ![t] = Append(@, call[t].generation_config)]
    /\ stage' = [stage EXCEPT ![t] = 0]
    /\ UNCHANGED <<call, input_token_len, response, detLog, completions>>
    /\ UNCHANGED ctorVars
    /\ UNCHANGED envVars

\* lines 213-215: the initial generation and the length test
A_Generate(t) ==
    /\ Usable(t)
    /\ pc[t] = "a_generate"
    /\ \E g \in Generations(Tokenizer(call[t].prompt)) :
          /\ generation' = [generation EXCEPT ![t] = g]
          /\ firstGen' = [firstGen EXCEPT ![t] = g]
          /\ lastGen' = [lastGen EXCEPT ![t] = g]
          /\ pc' = [pc EXCEPT ![t] =
                IF NeedsDetection(g, call[t].text_length)
                THEN "a_detect" ELSE "a_return"]
    /\ genLog' = [genLog EXCEPT ![t] = Append(@, call[t].generation_config)]
    /\ stage' = [stage EXCEPT ![t] = 0]
    /\ UNCHANGED <<lock, call, input_token_len, response, detLog, completions>>
    /\ UNCHANGED ctorVars
    /\ UNCHANGED envVars

StageExhausted_early(s) == s > 1

\* line 218
StageExhausted(s) == s > 2

\* lines 216-220: the loop test, stage += 1 and the give-up test
A_Detect(t) ==
    /\ Usable(t)
    /\ pc[t] = "a_detect"
    /\ LET d == detect_degeneration(generation[t], call[t].model_version)
       IN  /\ detLog' = [detLog EXCEPT ![t] = Append(@, d)]
           /\ stage' = [stage EXCEPT ![t] = IF d THEN @ + 1 ELSE @]
           /\ pc' = [pc EXCEPT ![t] =
                 IF d /\ ~StageExhausted(stage[t] + 1)
                 THEN "a_regen" ELSE "a_return"]
    /\ UNCHANGED <<lock, call, input_token_len, generation, response,
                   genLog, firstGen, lastGen, completions>>
    /\ UNCHANGED ctorVars
    /\ UNCHANGED envVars

\* line 221: regenerate from scratch with backup_generation_config[stage-1]
A_Regenerate(t) ==
    /\ Usable(t)
    /\ pc[t] = "a_regen"
    /\ \E g \in Generations(Tokenizer(call[t].prompt)) :
          /\ generation' = [generation EXCEPT ![t] = g]
          /\ lastGen' = [lastGen EXCEPT ![t] = g]
    /\ genLog' = [genLog EXCEPT ![t] =
          Append(@, backup_generation_config(call[t].text_length)[stage[t]])]
    /\ pc' = [pc EXCEPT ![t] = "a_detect"]
    /\ UNCHANGED <<lock, call, input_token_len, stage, response,
                   detLog, firstGen, completions>>
    /\ UNCHANGED ctorVars
    /\ UNCHANGED envVars

\* an exception of tokenizer() or generate() reaches the caller
A_Raise(t) ==
    /\ Usable(t)
    /\ pc[t] \in {"a_generate", "a_regen"}
    /\ pc' = [pc EXCEPT ![t] = "failed"]
    /\ UNCHANGED <<lock, call, input_token_len, generation, stage, response,
                   genLog, detLog, firstGen, lastGen, completions>>
    /\ UNCHANGED ctorVars
    /\ UNCHANGED envVars

\* lines 222-224
A_Return(t) ==
    /\ Usable(t)
    /\ pc[t] = "a_return"
    /\ response' = [response EXCEPT ![t] =
            [type |-> "str",
             text |-> split_response_decode(generation[t], call[t].model_version)]]
    /\ pc' = [pc EXCEPT ![t] = "done"]
    /\ UNCHANGED <<lock, call, input_token_len, generation, stage,
                   genLog, detLog, firstGen, lastGen, completions>>
    /\ UNCHANGED ctorVars
    /\ UNCHANGED envVars

(***************************************************************************)
(* Specifications                                                          *)
(***************************************************************************)
NoCall == [op |-> "none", prompt |-> <<>>, generation_config |-> CallerConfig,
           model_version |-> <<>>, text_length |-> 0,
           is_print_speed |-> FALSE, ground_truth |-> None]

Prompts(n) == SeqsUpTo({"a"}, n)

InitThreads ==
    /\ lock = FALSE
    /\ pc = [t \in callers |-> "idle"]
    /\ call = [t \in callers |-> NoCall]
    /\ input_token_len = [t \in callers |-> 0]
    /\ generation = [t \in callers |-> NoGeneration]
    /\ stage = [t \in callers |-> 0]
    /\ response = [t \in callers |-> NoResponse]
    /\ genLog = [t \in callers |-> <<>>]
    /\ detLog = [t \in callers |-> <<>>]
    /\ firstGen = [t \in callers |-> NoGeneration]
    /\ lastGen = [t \in callers |-> NoGeneration]
    /\ completions = [t \in callers |-> 0]

InitObject ==
    /\ declared = cfg
    /\ obj = "new"
    /\ proc = [status |-> "running", code |-> 0]
    /\ ctorCalls = <<>>

\* one caller; every configuration, checkpoint and library result in bounds
Init ==
    /\ cfg \in [model_name_or_path : {"path"},
                use_gptq_model : BOOLEAN, trust_remote_code : BOOLEAN,
                llama : BOOLEAN, text_length : 1..MaxTextLength,
                model_name : {None}, model_quant : {None},
                model_version : SeqsUpTo(VersionChars, MaxVerLen)]
    /\ modelConfig \in [has : SUBSET MetaAttrs, sakura_name : {"Sakura-13B"},
                        sakura_version : {V08, V09}, sakura_quant : {"4bit"}]
    /\ callers = {1}
    /\ world = [prompts |-> Prompts(MaxPromptLen),
                textLengths |-> 1..MaxTextLength,
                newTokens |-> 1..MaxNewTokens,
                texts |-> {"T1", "T2"},
                printFlags |-> BOOLEAN,
                ops |-> {"magic", "anti_degen"}]
    /\ InitObject
    /\ InitThreads

\* NumThreads callers sharing one instance; a narrow range of data
InitConc ==
    /\ cfg \in [model_name_or_path : {"path"},
                use_gptq_model : {FALSE}, trust_remote_code : BOOLEAN,
                llama : {FALSE}, text_length : {1},
                model_name : {None}, model_quant : {None},
                model_version : {V08}]
    /\ modelConfig \in [has : {MetaAttrs}, sakura_name : {"Sakura-13B"},
                        sakura_version : {V08, V09}, sakura_quant : {"4bit"}]
    /\ callers = 1..NumThreads
    /\ world = [prompts |-> {<<"a">>},
                textLengths |-> {1},
                newTokens |-> {1},
                texts |-> {"T1", "T2"},
                printFlags |-> {TRUE},
                ops |-> {"magic", "anti_degen"}]
    /\ InitObject
    /\ InitThreads

Next ==
    \/ SakuraModel_init
    \/ \E t \in callers : Completion(t)
    \/ \E t \in callers : CheckModelByMagic(t)
    \/ \E t \in callers : Lock_acquire(t)
    \/ \E t \in callers : Tokenize(t)
    \/ \E t \in callers : Generate(t)
    \/ \E t \in callers : Decode(t)
    \/ \E t \in callers : Raise(t)
    \/ \E t \in callers : Return(t)
    \/ \E t \in callers : CheckModelByMagicReturn(t)
    \/ \E t \in callers : AntiDegen(t)
    \/ \E t \in callers : A_Generate(t)
    \/ \E t \in callers : A_Detect(t)
    \/ \E t \in callers : A_Regenerate(t)
    \/ \E t \in callers : A_Raise(t)
    \/ \E t \in callers : A_Return(t)

Spec == Init /\ [][Next]_vars

SpecConc == InitConc /\ [][Next]_vars

\* every thread that can take a step eventually takes one (OS scheduling);
\* used for the termination part of the anti-degeneration claim
FairSpec == Init /\ [][Next]_vars /\ WF_vars(Next)

(***************************************************************************)
(* Properties                                                              *)
(***************************************************************************)
IsCompletion(t) == call[t].op \in {"completion", "magic"}
IsAntiDegen(t) == call[t].op = "anti_degen"
InGenerate(t) == pc[t] \in {"c_generate", "a_generate", "a_regen"}
Fallbacks(t) == Len(genLog[t]) - 1

\* C1: at most one completion() call is between the start of tokenization
\* and the end of decode/split_response; steps of two calls never interleave.
C1_MutualExclusion ==
    \A t1 \in callers, t2 \in callers :
        (pc[t1] \in InCritical /\ pc[t2] \in InCritical) => t1 = t2

\* a call is generating while another call waits for the lock
C1_Witness ==
    \E t1 \in callers, t2 \in callers :
        t1 /= t2 /\ pc[t1] = "c_generate" /\ lock /\ pc[t2] = "c_lock"

AllFlaggedDegenerate(t) ==
    /\ IsAntiDegen(t)
    /\ firstGen[t].len > 2 * call[t].text_length
    /\ \A i \in DOMAIN detLog[t] : detLog[t][i]
    /\ detect_degeneration(lastGen[t], call[t].model_version)

\* C2: with a long initial generation and every generation flagged
\* degenerate, the call performs exactly two fallback regenerations, the
\* first with frequency_penalty 0.05 and the second with 0.2, never a third,
\* and then returns.
C2_TwoFallbacks ==
    \A t \in callers :
        /\ IsAntiDegen(t) => Fallbacks(t) <= 2
        /\ (AllFlaggedDegenerate(t) /\ pc[t] = "done") =>
              /\ Fallbacks(t) = 2
              /\ genLog[t][1] = call[t].generation_config
              /\ genLog[t][2].frequency_penalty = 5
              /\ genLog[t][3].frequency_penalty = 20
              /\ detLog[t] = <<TRUE, TRUE, TRUE>>
              /\ response[t].type = "str"

C2_Witness ==
    \E t \in callers :
        AllFlaggedDegenerate(t) /\ pc[t] = "done" /\ Fallbacks(t) = 2

\* C3: a constructed SakuraModel implies that the checkpoint exposed all
\* three attributes, that the declared version equals the checkpoint's
\* version and that cfg holds the checkpoint's three values; no call runs on
\* an instance whose declared version differs from the checkpoint's.
C3_ConstructedMatches ==
    /\ obj = "constructed" =>
          /\ MetaAttrs \subseteq modelConfig.has
          /\ declared.model_version = modelConfig.sakura_version
          /\ cfg.model_name = modelConfig.sakura_name
          /\ cfg.model_version = modelConfig.sakura_version
          /\ cfg.model_quant = modelConfig.sakura_quant
    /\ (\E t \in callers : pc[t] /= "idle") =>
          /\ obj = "constructed"
          /\ declared.model_version = modelConfig.sakura_version

C3_Witness ==
    /\ obj = "constructed"
    /\ cfg.model_name = "Sakura-13B"
    /\ \E t \in callers : pc[t] = "done" /\ call[t].op = "completion"

GuardFails ==
    \/ \E a \in MetaAttrs : a \notin modelConfig.has
    \/ declared.model_version /= modelConfig.sakura_version

\* C4: once the checkpoint is loaded, a missing attribute or a version that
\* differs from the declared one terminates the process with a non-zero
\* status, leaves the three post-load fields of cfg as they were and no
\* completion call is ever executed.
C4_GuardExits ==
    (ctorCalls /= <<>> /\ GuardFails) =>
        /\ obj = "exited"
        /\ proc.status = "exited"
        /\ proc.code /= 0
        /\ cfg.model_name = declared.model_name
        /\ cfg.model_version = declared.model_version
        /\ cfg.model_quant = declared.model_quant
        /\ \A t \in callers : pc[t] = "idle" /\ completions[t] = 0

C4_Witness ==
    /\ ctorCalls /= <<>>
    /\ "sakura_quant" \notin modelConfig.has
    /\ declared.model_version = modelConfig.sakura_version
    /\ proc.status = "exited"

ListedVersions == {<<"0", ".", "5">>, <<"0", ".", "7">>, <<"0", ".", "8">>}

\* C5: load_model raises the configuration error if and only if
\* trust_remote_code is false and the requested version is one of 0.5, 0.7,
\* 0.8; when it raises, no tokenizer or model constructor has been called.
C5_RaisesIffListed ==
    obj /= "new" =>
        /\ obj = "raised" <=>
              (~declared.trust_remote_code /\ declared.model_version \in ListedVersions)
        /\ obj = "raised" => ctorCalls = <<>>

MagicDone(t) == call[t].op = "magic" /\ pc[t] = "done"

\* C6: check_model_by_magic runs exactly one completion call, with speed
\* printing disabled, on the prompt of the test case registered for
\* cfg.model_version, and returns true iff the response text equals the
\* expected output; on a mismatch it returns false, nothing is raised and
\* the process keeps running.
C6_MagicExact ==
    \A t \in callers : MagicDone(t) =>
        LET testcase == get_test_case_by_model_version(cfg.model_version)
        IN  /\ completions[t] = 1
            /\ Len(genLog[t]) = 1
            /\ call[t].is_print_speed = FALSE
            /\ call[t].prompt = get_prompt(testcase.test_input, cfg.model_version)
            /\ genLog[t][1] = testcase.generation_config
            /\ response[t].type = "bool"
            /\ response[t].value <=> (response[t].output.text = testcase.test_output)
            /\ response[t].output.text = lastGen[t].text
            /\ proc.status = "running"

C6_Witness ==
    \E t \in callers :
        /\ MagicDone(t)
        /\ response[t].value = FALSE
        /\ response[t].output.text /=
              get_test_case_by_model_version(cfg.model_version).test_output

\* C7: the effective text length of a completion call is the larger of
\* cfg.text_length and the prompt length (it is one of the two and not less
\* than either), for every prompt length from 0 up, and the configuration's
\* text_length is left unchanged.
C7_MaxTextLength ==
    /\ cfg.text_length = declared.text_length
    /\ \A t \in callers : (IsCompletion(t) /\ pc[t] /= "idle") =>
          /\ call[t].text_length >= cfg.text_length
          /\ call[t].text_length >= Len(call[t].prompt)
          /\ call[t].text_length \in {cfg.text_length, Len(call[t].prompt)}

C7_Witness ==
    \E t \in callers :
        /\ call[t].op = "completion"
        /\ Len(call[t].prompt) > cfg.text_length
        /\ call[t].text_length = Len(call[t].prompt)

\* C8: a completion call invokes generate at most once; a call that failed
\* in tokenize/generate/decode returned no response record; the lock is
\* held only by a call that is inside its locked section, so once a call has
\* ended (returned or failed) it does not keep a later call from the lock.
C8_FailureReleases ==
    /\ \A t \in callers : IsCompletion(t) =>
          /\ Len(genLog[t]) <= 1
          /\ pc[t] = "failed" => response[t].type = "none"
    /\ lock => \E t \in callers : pc[t] \in InCritical
    /\ (\A t \in callers : pc[t] \in {"idle", "done", "failed"}) => ~lock

\* one call has failed and another call is inside the locked section
C8_Witness ==
    \E t1 \in callers, t2 \in callers :
        /\ IsCompletion(t1) /\ pc[t1] = "failed"
        /\ IsCompletion(t2) /\ pc[t2] = "c_generate" /\ lock

\* C9: no step of get_model_response_anti_degen acquires or releases the
\* lock, so its generate steps can run while a completion() call holds it.
C9_AntiDegenLockFree ==
    [][\A t \in callers :
          (call'[t].op = "anti_degen" /\ pc'[t] /= pc[t]) => lock' = lock]_vars

\* an anti-degeneration generate overlaps the locked generate of completion
C9_Witness ==
    \E t1 \in callers, t2 \in callers :
        /\ IsCompletion(t1) /\ pc[t1] = "c_generate" /\ lock
        /\ IsAntiDegen(t2) /\ pc[t2] \in {"a_generate", "a_regen"}

AntiDegenReturned(t) == IsAntiDegen(t) /\ pc[t] = "done"

ReturnsLastGeneration(t) ==
    /\ response[t].type = "str"
    /\ response[t].text = split_response_decode(lastGen[t], call[t].model_version)

\* C10 as stated: at most three generate calls, and a returned text comes
\* from the last generation, which is rated non-degenerate unless two
\* fallback regenerations were performed.
C10_Original ==
    \A t \in callers :
        /\ IsAntiDegen(t) => Len(genLog[t]) <= 3
        /\ AntiDegenReturned(t) =>
              /\ ReturnsLastGeneration(t)
              /\ \/ ~detect_degeneration(lastGen[t], call[t].model_version)
                 \/ Fallbacks(t) = 2

C10_AmendedInv ==
    \A t \in callers :
        /\ IsAntiDegen(t) => Len(genLog[t]) <= 3 /\ Len(detLog[t]) <= 3
        /\ AntiDegenReturned(t) =>
              /\ ReturnsLastGeneration(t)
              /\ \/ firstGen[t].len <= 2 * call[t].text_length
                 \/ ~detect_degeneration(lastGen[t], call[t].model_version)
                 \/ Fallbacks(t) = 2

\* C10 amended: the call ends (returns, or a generate raises) after at most
\* three generate calls, and a returned text comes from the last
\* generation, where the initial generation was not longer than
\* 2 * text_length (the detector never ran), or the last generation is rated
\* non-degenerate, or two fallback regenerations were performed.
C10_Amended ==
    /\ []C10_AmendedInv
    /\ (pc[1] = "a_generate") ~> (pc[1] \in {"done", "failed"})

\* a short initial generation that the detector would flag is returned
C10_Witness ==
    \E t \in callers :
        /\ AntiDegenReturned(t)
        /\ firstGen[t].len <= 2 * call[t].text_length
        /\ detect_degeneration(lastGen[t], call[t].model_version)
        /\ Fallbacks(t) = 0
====
